---- MODULE Spec2Model ----
(***************************************************************************)
(* Backtest engine of binance_api: the three signal generators             *)
(* (strategies/sma_cross.py, strategies/rsi_bb.py,                         *)
(* strategies/vwap_reversion.py), the execution simulation they request    *)
(* from vectorbt (Portfolio.from_signals with entries = signal == 1 and    *)
(* exits = signal == -1) and Backtester.run_backtest (core/backtester.py). *)
(*                                                                         *)
(* Floating point values are modelled as exact rationals num/den with      *)
(* den > 0, plus the IEEE values NaN and +/-inf where the code can produce *)
(* them; comparisons are done by cross-multiplication.  A comparison with  *)
(* NaN is FALSE, as in numpy.                                              *)
(***************************************************************************)
EXTENDS Integers, Sequences, FiniteSets, TLC

(* ---------------------------------------------------------------- bounds *)
\* number of timestamps of the price panel's index
MaxLen == 3

(* ----------------------------------------------------------------- state *)
VARIABLES
  strategy,    \* the strategy object handed to Backtester.run_backtest
  params,      \* the window lengths the strategy was constructed with
  price_data,  \* its price panel: pair -> rows of bars
  pc,          \* "start", "simulate", "metrics", "returned"
  signals,     \* the signal panel returned by generate_signals
  cursor,      \* the column and the row from_signals is about to process
  portfolio,   \* pair -> state of the pair's column
  log,         \* pair -> the column's state after each row processed so far
  runs,        \* number of calls of strategy.run_backtest so far
  result,      \* what Backtester.run_backtest returns
  \* main's batch of strategies (main.py)
  configs,     \* the arguments each strategy of the list is constructed with
  faults,      \* per strategy, the step of its run that raises, if any
  strategies,  \* the strategy objects constructed so far
  results,     \* what Backtester.run_backtest returned, per strategy run so far
  all_metrics, \* the pooled metrics records
  logged,      \* the error messages logged so far
  compared,    \* whether compare_strategies has been called
  bpc,         \* "construct", "loop", "compare", "done", "fatal"
  \* the metrics of one completed portfolio (strategies/base.py, core/metrics.py)
  completed,   \* the portfolio handed to calculate_metrics: trade records and index
  record,      \* the metrics record calculate_metrics returned
  mpc,         \* "portfolio", "metrics", "again"
  calls,       \* the calls of calculate_metrics so far: portfolio given, record, portfolio left
  \* the download of the price panel (core/data_loader.py)
  top_pairs,   \* load_or_download_data: the pairs get_top_btc_pairs returned
  fetches,     \* per pair, what fetch_historical_data does: "rows", "empty", "raises"
  downloaded,  \* all_data of load_or_download_data: the pairs stored, in order
  failed,      \* the pairs whose fetch raised
  visited,     \* the pairs the download loop has been through
  loaded,      \* what load_or_download_data returned or raised
  dpc,         \* "loop", "combine", "done"
  start_dt,    \* fetch_historical_data: first instant of the period
  end_dt,      \* last instant of the period
  current_dt,  \* the instant the next page is requested from
  last_timestamp, \* timestamp of the last row stored, None before the first
  all_data,    \* the pages stored so far, each a list of row timestamps
  fpc          \* "loop", "returned"

pipeline_vars ==
  <<strategy, params, price_data, pc, signals, cursor, portfolio, log, runs, result>>

batch_vars ==
  <<configs, faults, strategies, results, all_metrics, logged, compared, bpc>>

metrics_vars == <<completed, record, mpc, calls>>

download_vars == <<top_pairs, fetches, downloaded, failed, visited, loaded, dpc>>

fetch_vars == <<start_dt, end_dt, current_dt, last_timestamp, all_data, fpc>>

loader_vars == <<download_vars, fetch_vars>>

vars == <<pipeline_vars, batch_vars, metrics_vars, loader_vars>>

(* ------------------------------------------------ strategy configuration *)
\* SMACrossoverStrategy(price_data, fast_window, slow_window)
fast_window == params.fast_window

slow_window == params.slow_window

\* RSIBollingerStrategy(price_data, rsi_window, bb_window, bb_std,
\* rsi_oversold, rsi_overbought)
rsi_window == params.rsi_window

bb_window == params.bb_window

bb_std == params.bb_std

rsi_oversold == 30

rsi_overbought == 70

\* VWAPReversionStrategy(price_data, lookback_window, deviation_threshold):
\* deviation_threshold = 0.01 = deviation_threshold_num / deviation_threshold_den
lookback_window == params.lookback_window

deviation_threshold_num == 1

deviation_threshold_den == 100

\* the constructor arguments enumerated: short windows, so that every
\* indicator leaves its warm-up within the index
Configurations ==
  {[fast_window |-> 1, slow_window |-> 2, rsi_window |-> 2, bb_window |-> 2,
    bb_std |-> 1, lookback_window |-> 2],
   [fast_window |-> 2, slow_window |-> 3, rsi_window |-> 3, bb_window |-> 2,
    bb_std |-> 1, lookback_window |-> 3]}

(* ------------------------------------------------------------ price panel *)
\* a missing float value of the panel
NaN == 0 - 1

isna(x) == x = NaN

Strategies == {"SMA", "RSI", "VWAP"}

\* price_data.columns.get_level_values(0).unique(), in column order
pairs == <<"A", "B">>

Assets == {pairs[k] : k \in 1..Len(pairs)}

\* price_data.index
Index == 1..MaxLen

Bar(h, l, c, v) == [high |-> h, low |-> l, close |-> c, volume |-> v]

NaNBar == Bar(NaN, NaN, NaN, NaN)

\* the prices and the volumes of the bars enumerated
Prices == 0..3

Volumes == 0..1

\* the bars of an asset that has data at a timestamp: low <= close <= high
Bars ==
  {Bar(c, c, c, v) : c \in Prices, v \in Volumes} \cup {Bar(2, 1, 1, 1)}

\* the rows of one asset
SeriesOf(S) == [Index -> S]

\* the column (pair, field) of the panel, as a sequence over the index
Column(panel, pair, field) == [i \in Index |-> panel[pair][i][field]]

\* Series.dropna(): the non-missing values, in order
RECURSIVE dropna(_)
dropna(s) ==
  IF s = <<>> THEN <<>>
  ELSE IF isna(Head(s)) THEN dropna(Tail(s))
       ELSE <<Head(s)>> \o dropna(Tail(s))

(* ------------------------------------------------------ rational values *)
Val(n, d) == [def |-> TRUE, num |-> n, den |-> d]

NaNVal == [def |-> FALSE, num |-> 0, den |-> 1]

\* x > y and x < y of numpy: FALSE when either side is NaN
Gt(x, y) == x.def /\ y.def /\ x.num * y.den > y.num * x.den

Lt(x, y) == x.def /\ y.def /\ x.num * y.den < y.num * x.den

RECURSIVE Pow(_, _)
Pow(b, e) == IF e = 0 THEN 1 ELSE b * Pow(b, e - 1)

RECURSIVE SumOver(_, _, _)
SumOver(s, lo, hi) == IF lo > hi THEN 0 ELSE s[lo] + SumOver(s, lo + 1, hi)

\* Series.rolling(w).sum() at position i (min_periods = w): missing during
\* the first w-1 positions and whenever the window holds a missing value
rolling_sum(s, w, i) ==
  IF i < w \/ \E j \in (i - w + 1)..i : isna(s[j])
  THEN NaNVal
  ELSE Val(SumOver(s, i - w + 1, i), 1)

\* Series.rolling(w).mean() at position i
rolling_mean(s, w, i) ==
  LET r == rolling_sum(s, w, i)
  IN IF r.def THEN Val(r.num, w) ELSE NaNVal

(* ---------------------------------------------------- indicator library *)
\* ta.trend.SMAIndicator(close, window).sma_indicator() at position i
sma_indicator(close, window, i) == rolling_mean(close, window, i)

\* close.diff(1) split into gains and losses (ta.momentum.RSIIndicator):
\* the first difference is missing and counts as 0 on both sides
up_direction(close) ==
  [i \in 1..Len(close) |->
     IF i > 1 /\ close[i] - close[i - 1] > 0 THEN close[i] - close[i - 1] ELSE 0]

down_direction(close) ==
  [i \in 1..Len(close) |->
     IF i > 1 /\ close[i] - close[i - 1] < 0 THEN close[i - 1] - close[i] ELSE 0]

\* x.ewm(alpha = 1/w, adjust = False).mean() at position i, times w^(i-1):
\* y[1] = x[1], y[i] = (1 - 1/w) * y[i-1] + (1/w) * x[i]
RECURSIVE ewm_scaled(_, _, _)
ewm_scaled(x, w, i) ==
  IF i = 1 THEN x[1]
  ELSE (w - 1) * ewm_scaled(x, w, i - 1) + Pow(w, i - 2) * x[i]

\* RSIIndicator(close, window).rsi() at position i: missing during the first
\* window-1 positions (min_periods = window), 100 when the average loss is 0,
\* else 100 - 100 / (1 + emaup / emadn)
rsi(close, window, i) ==
  LET emaup == ewm_scaled(up_direction(close), window, i)
      emadn == ewm_scaled(down_direction(close), window, i)
  IN IF i < window THEN NaNVal
     ELSE IF emadn = 0 THEN Val(100, 1)
     ELSE Val(100 * emaup, emaup + emadn)

\* sum of the squares of a window
SquaresOver(s, lo, hi) == SumOver([j \in 1..Len(s) |-> s[j] * s[j]], lo, hi)

\* BollingerBands(close, window, window_dev): mavg = rolling mean, mstd =
\* rolling population standard deviation (ddof = 0), lband = mavg - dev*mstd,
\* hband = mavg + dev*mstd.  With S the window's sum and Q its sum of
\* squares, mavg = S/w and mstd = sqrt(w*Q - S*S)/w, so that
\*   close <= lband  iff  dev*sqrt(w*Q - S*S) <= S - w*close
\*   close >= hband  iff  dev*sqrt(w*Q - S*S) <= w*close - S
\* and both sides are compared by their squares.
bollinger_defined(close, window, i) == i >= window

bollinger_spread2(close, window, window_dev, i) ==
  LET S == SumOver(close, i - window + 1, i)
      Q == SquaresOver(close, i - window + 1, i)
  IN window_dev * window_dev * (window * Q - S * S)

close_le_lband(close, window, window_dev, i) ==
  /\ bollinger_defined(close, window, i)
  /\ LET gap == SumOver(close, i - window + 1, i) - window * close[i]
     IN gap >= 0 /\ bollinger_spread2(close, window, window_dev, i) <= gap * gap

close_ge_hband(close, window, window_dev, i) ==
  /\ bollinger_defined(close, window, i)
  /\ LET gap == window * close[i] - SumOver(close, i - window + 1, i)
     IN gap >= 0 /\ bollinger_spread2(close, window, window_dev, i) <= gap * gap

\* typical_price * volume, times 3, at each position; missing when any of the
\* four fields is
typical_volume3(high, low, close, volume) ==
  [i \in 1..Len(close) |->
     IF isna(high[i]) \/ isna(low[i]) \/ isna(close[i]) \/ isna(volume[i])
     THEN NaN
     ELSE (high[i] + low[i] + close[i]) * volume[i]]

\* calculate_vwap with the close in place of the typical price
calculate_vwap_close(high, low, close, volume, i) ==
  LET n == rolling_sum(typical_volume3(close, close, close, volume), lookback_window, i)
      d == rolling_sum(volume, lookback_window, i)
  IN IF ~n.def \/ ~d.def \/ d.num = 0 THEN NaNVal
     ELSE Val(n.num, 3 * d.num)

\* VWAPReversionStrategy.calculate_vwap at position i:
\* (typical_price * volume).rolling(w).sum() / volume.rolling(w).sum().
\* 0/0 is NaN; the numerator cannot be non-zero over a zero volume sum.
calculate_vwap(high, low, close, volume, i) ==
  LET n == rolling_sum(typical_volume3(high, low, close, volume), lookback_window, i)
      d == rolling_sum(volume, lookback_window, i)
  IN IF ~n.def \/ ~d.def \/ d.num = 0 THEN NaNVal
     ELSE Val(n.num, 3 * d.num)

\* (close - vwap) / vwap as an IEEE value: "nan", "posinf", "neginf" or the
\* finite rational num/den
Dev(k, n, d) == [kind |-> k, num |-> n, den |-> d]

deviation(c, vwap) ==
  IF isna(c) \/ ~vwap.def THEN Dev("nan", 0, 1)
  ELSE IF vwap.num = 0
       THEN (IF c > 0 THEN Dev("posinf", 0, 1)
             ELSE IF c < 0 THEN Dev("neginf", 0, 1)
             ELSE Dev("nan", 0, 1))
  ELSE Dev("fin", c * vwap.den - vwap.num, vwap.num)

\* deviation < -threshold and deviation > threshold
dev_below(dev) ==
  \/ dev.kind = "neginf"
  \/ dev.kind = "fin" /\
       dev.num * deviation_threshold_den < (0 - deviation_threshold_num) * dev.den

dev_above(dev) ==
  \/ dev.kind = "posinf"
  \/ dev.kind = "fin" /\
       dev.num * deviation_threshold_den > deviation_threshold_num * dev.den

(* ----------------------------------------------------- signal generators *)
\* np.where(c1, 1, np.where(c2, -1, 0)) and np.select([c1, c2], [1, -1], 0)
\* on one element: the first condition that holds decides
select(c1, c2) == IF c1 THEN 1 ELSE IF c2 THEN 0 - 1 ELSE 0

\* the two averages taken the other way round
sma_values_swapped(panel, pair) ==
  LET close == dropna(Column(panel, pair, "close"))
  IN [i \in 1..Len(close) |->
        LET fast_sma == sma_indicator(close, slow_window, i)
            slow_sma == sma_indicator(close, fast_window, i)
        IN select(Gt(fast_sma, slow_sma), Lt(fast_sma, slow_sma))]

\* SMACrossoverStrategy.generate_signals, the values computed for one pair:
\* one per row of close.dropna()
sma_values(panel, pair) ==
  LET close == dropna(Column(panel, pair, "close"))
  IN [i \in 1..Len(close) |->
        LET fast_sma == sma_indicator(close, fast_window, i)
            slow_sma == sma_indicator(close, slow_window, i)
        IN select(Gt(fast_sma, slow_sma), Lt(fast_sma, slow_sma))]

\* long_cond with the two conditions joined by "or"
long_cond_either(close, i) ==
  \/ Lt(rsi(close, rsi_window, i), Val(rsi_oversold, 1))
  \/ close_le_lband(close, bb_window, bb_std, i)

\* RSIBollingerStrategy.generate_signals, the conditions at row i of
\* close.dropna()
long_cond(close, i) ==
  /\ Lt(rsi(close, rsi_window, i), Val(rsi_oversold, 1))
  /\ close_le_lband(close, bb_window, bb_std, i)

short_cond(close, i) ==
  /\ Gt(rsi(close, rsi_window, i), Val(rsi_overbought, 1))
  /\ close_ge_hband(close, bb_window, bb_std, i)

rsi_values(panel, pair) ==
  LET close == dropna(Column(panel, pair, "close"))
  IN [i \in 1..Len(close) |-> select(long_cond(close, i), short_cond(close, i))]

\* VWAPReversionStrategy.generate_signals, the values computed for one pair:
\* the columns are used as they are, one value per row of the index
vwap_values(panel, pair) ==
  LET high == Column(panel, pair, "high")
      low == Column(panel, pair, "low")
      close == Column(panel, pair, "close")
      volume == Column(panel, pair, "volume")
  IN [i \in Index |->
        LET vwap == calculate_vwap(high, low, close, volume, i)
            dev == deviation(close[i], vwap)
        IN select(dev_below(dev), dev_above(dev))]

signal_values(strat, panel, pair) ==
  CASE strat = "SMA" -> sma_values(panel, pair)
    [] strat = "RSI" -> rsi_values(panel, pair)
    [] strat = "VWAP" -> vwap_values(panel, pair)

\* an assignment that aligns on the index instead of checking the length
length_matches_aligned(values) == TRUE

\* signals[(pair, 'signal')] = values: pandas raises ValueError unless the
\* array has as many elements as the frame's index
length_matches(values) == Len(values) = MaxLen

\* generate_signals: the loop over self.pairs; an exception of any pair
\* leaves the method
generate_signals(strat, panel) ==
  IF \A pair \in Assets : length_matches(signal_values(strat, panel, pair))
  THEN [raised |-> FALSE,
        signals |-> [pair \in Assets |-> signal_values(strat, panel, pair)]]
  ELSE [raised |-> TRUE, signals |-> [pair \in Assets |-> <<>>]]

(* --------------------------------------------------- execution simulation *)
\* vbt.Portfolio.from_signals(close, entries = signal == 1,
\* exits = signal == -1, fees, slippage): one column per pair, each with its
\* own cash, long-only, no accumulation.  The state of a column:
\* its position, the number of orders filled, its trade records, and whether
\* an order raised.
Trade(i, p) ==
  [entry_idx |-> i, entry_price |-> p, exit_idx |-> i, exit_price |-> p,
   status |-> "Open"]

NoPortfolio == [position |-> "FLAT", orders |-> 0, trades |-> <<>>, raised |-> FALSE]

close_trade(trades, i, p) ==
  [trades EXCEPT ![Len(trades)] =
     [@ EXCEPT !.exit_idx = i, !.exit_price = p, !.status = "Closed"]]

\* from_signals_row with a signal 0 treated as an order to go flat
from_signals_row_flat_on_zero(col, signal, price, i) ==
  LET entry == signal = 1
      exit == signal = 0 - 1 \/ signal = 0
      ordered == (entry /\ col.position = "FLAT") \/ (exit /\ col.position = "LONG")
  IN IF ~ordered \/ isna(price) THEN col
     ELSE IF price <= 0 THEN [col EXCEPT !.raised = TRUE]
     ELSE IF entry
          THEN [col EXCEPT !.position = "LONG", !.orders = @ + 1,
                           !.trades = Append(@, Trade(i, price))]
          ELSE [col EXCEPT !.position = "FLAT", !.orders = @ + 1,
                           !.trades = close_trade(@, i, price)]

\* from_signals_row with accumulate = True: an entry buys again when long
from_signals_row_accumulate(col, signal, price, i) ==
  LET entry == signal = 1
      exit == signal = 0 - 1
      ordered == entry \/ (exit /\ col.position = "LONG")
  IN IF ~ordered \/ isna(price) THEN col
     ELSE IF price <= 0 THEN [col EXCEPT !.raised = TRUE]
     ELSE IF entry
          THEN [col EXCEPT !.position = "LONG", !.orders = @ + 1,
                           !.trades = IF col.position = "FLAT"
                                      THEN Append(@, Trade(i, price)) ELSE @]
          ELSE [col EXCEPT !.position = "FLAT", !.orders = @ + 1,
                           !.trades = close_trade(@, i, price)]

\* one row of one column: an entry buys when the column is flat, an exit
\* sells when it is long; an order at a missing price is ignored and an
\* order at a price <= 0 raises ValueError
from_signals_row(col, signal, price, i) ==
  LET entry == signal = 1
      exit == signal = 0 - 1
      ordered == (entry /\ col.position = "FLAT") \/ (exit /\ col.position = "LONG")
  IN IF ~ordered \/ isna(price) THEN col
     ELSE IF price <= 0 THEN [col EXCEPT !.raised = TRUE]
     ELSE IF entry
          THEN [col EXCEPT !.position = "LONG", !.orders = @ + 1,
                           !.trades = Append(@, Trade(i, price))]
          ELSE [col EXCEPT !.position = "FLAT", !.orders = @ + 1,
                           !.trades = close_trade(@, i, price)]

\* a whole column, rows 1..i
RECURSIVE from_signals_column(_, _, _)
from_signals_column(sig, close, i) ==
  IF i = 0 THEN NoPortfolio
  ELSE LET before == from_signals_column(sig, close, i - 1)
       IN IF before.raised THEN before
          ELSE from_signals_row(before, sig[i], close[i], i)

\* strategy.run_backtest(): generate_signals, then from_signals
run_backtest(strat, panel) ==
  LET g == generate_signals(strat, panel)
      cols == [pair \in Assets |->
                 from_signals_column(g.signals[pair],
                                     Column(panel, pair, "close"), MaxLen)]
  IN IF g.raised THEN [raised |-> TRUE, columns |-> [pair \in Assets |-> NoPortfolio]]
     ELSE [raised |-> \E pair \in Assets : cols[pair].raised, columns |-> cols]

(* -------------------------------------------------------- metrics record *)
\* len(portfolio.trades.records): the trade records of all columns
total_trades(columns) ==
  LET RECURSIVE count(_)
      count(k) == IF k = 0 THEN 0 ELSE Len(columns[pairs[k]].trades) + count(k - 1)
  IN count(Len(pairs))

strategy_name(strat) ==
  CASE strat = "SMA" -> "SMA Crossover"
    [] strat = "RSI" -> "RSI with Bollinger Bands"
    [] strat = "VWAP" -> "VWAP Reversion"

\* what the library returns as the Sharpe ratio of returns whose standard
\* deviation is 0: +inf, or the NaN of the float division 0/0
FlatSharpe == {"inf", "nan"}

\* portfolio.sharpe_ratio(), one value per column, stored in the record as
\* returned: a column without orders keeps its initial value, its returns
\* are all 0 and so is their standard deviation
sharpe_ratio(columns, flat) ==
  [pair \in Assets |-> IF columns[pair].orders = 0 THEN flat ELSE "finite"]

\* strategy.get_metrics(): run_backtest() once more, calculate_metrics on its
\* portfolio (which catches its own exceptions), then the strategy's identity
get_metrics(strat, panel, flat) ==
  LET p == run_backtest(strat, panel)
  IN [raised |-> p.raised,
      metrics |-> [strategy |-> strategy_name(strat),
                   total_trades |-> total_trades(p.columns),
                   sharpe_ratio |-> sharpe_ratio(p.columns, flat)]]

NoMetrics ==
  [strategy |-> "", total_trades |-> 0, sharpe_ratio |-> [pair \in Assets |-> ""]]

(* ------------------------------------------------------------ transitions *)
\* the rows an asset can have at a timestamp
Rows == Bars \cup {NaNBar}

\* rows that differ in their close only: the crossover and the oscillator
\* strategies read no other field
CloseRows == {Bar(c, c, c, 1) : c \in Prices} \cup {NaNBar}

\* the second asset either has no data at all or a constant price
SecondSeries == {[i \in Index |-> NaNBar], [i \in Index |-> Bar(1, 1, 1, 1)]}

Panels(rows) ==
  {[pair \in Assets |-> IF pair = pairs[1] THEN a ELSE b] :
     a \in SeriesOf(rows), b \in SecondSeries}

\* the batch of main and the metrics engine are not part of a single run
BatchIdle ==
  /\ configs = <<>>
  /\ faults = <<>>
  /\ strategies = <<>>
  /\ results = <<>>
  /\ all_metrics = <<>>
  /\ logged = <<>>
  /\ compared = FALSE
  /\ bpc = "idle"

MetricsIdle ==
  /\ completed = [trades |-> <<>>, index |-> <<>>]
  /\ record = <<>>
  /\ mpc = "idle"
  /\ calls = <<>>

\* no download is part of a run, a batch or a metrics computation
DownloadIdle ==
  /\ top_pairs = <<>>
  /\ fetches = <<>>
  /\ downloaded = <<>>
  /\ failed = <<>>
  /\ visited = <<>>
  /\ loaded = [returned |-> "pending"]
  /\ dpc = "idle"

FetchIdle ==
  /\ start_dt = 0
  /\ end_dt = 0
  /\ current_dt = 0
  /\ last_timestamp = 0 - 1
  /\ all_data = <<>>
  /\ fpc = "idle"

LoaderIdle == DownloadIdle /\ FetchIdle

Pending == [returned |-> "pending", metrics |-> NoMetrics]

None == [returned |-> "None", metrics |-> NoMetrics]

Init ==
  /\ strategy \in Strategies
  /\ params \in Configurations
  /\ price_data \in Panels(IF strategy = "VWAP" THEN Rows ELSE CloseRows)
  /\ pc = "start"
  /\ signals = [pair \in Assets |-> <<>>]
  /\ cursor = [col |-> 1, row |-> 1]
  /\ portfolio = [pair \in Assets |-> NoPortfolio]
  /\ log = [pair \in Assets |-> <<>>]
  /\ runs = 0
  /\ result = Pending
  /\ BatchIdle
  /\ MetricsIdle
  /\ LoaderIdle

\* Backtester.run_backtest, first half of strategy.run_backtest():
\* generate_signals; an exception is caught and None returned
GenerateSignals ==
  /\ pc = "start"
  /\ runs' = runs + 1
  /\ LET g == generate_signals(strategy, price_data)
     IN IF g.raised
        THEN /\ pc' = "returned"
             /\ result' = None
             /\ UNCHANGED signals
        ELSE /\ pc' = "simulate"
             /\ signals' = g.signals
             /\ UNCHANGED result
  /\ UNCHANGED <<strategy, params, price_data, cursor, portfolio, log>>
  /\ UNCHANGED <<batch_vars, metrics_vars, loader_vars>>

\* second half of strategy.run_backtest(): from_signals, one row of one
\* column per step, column by column
FromSignals ==
  /\ pc = "simulate"
  /\ LET pair == pairs[cursor.col]
         i == cursor.row
         after == from_signals_row(portfolio[pair], signals[pair][i],
                                   price_data[pair][i].close, i)
     IN /\ portfolio' = [portfolio EXCEPT ![pair] = after]
        /\ log' = [log EXCEPT ![pair] = Append(@, after)]
        /\ IF after.raised
           THEN pc' = "returned" /\ result' = None /\ UNCHANGED cursor
           ELSE /\ UNCHANGED result
                /\ IF i < MaxLen
                   THEN pc' = pc /\ cursor' = [cursor EXCEPT !.row = i + 1]
                   ELSE IF cursor.col < Len(pairs)
                        THEN pc' = pc /\ cursor' = [col |-> cursor.col + 1, row |-> 1]
                        ELSE pc' = "metrics" /\ UNCHANGED cursor
  /\ UNCHANGED <<strategy, params, price_data, signals, runs>>
  /\ UNCHANGED <<batch_vars, metrics_vars, loader_vars>>

\* Backtester.run_backtest, the returned mapping: strategy.get_metrics() and
\* the portfolio of the first run
GetMetrics ==
  /\ pc = "metrics"
  /\ runs' = runs + 1
  /\ \E flat \in FlatSharpe :
       LET m == get_metrics(strategy, price_data, flat)
       IN result' = IF m.raised THEN None
                    ELSE [returned |-> "dict", metrics |-> m.metrics]
  /\ pc' = "returned"
  /\ UNCHANGED <<strategy, params, price_data, signals, cursor, portfolio, log>>
  /\ UNCHANGED <<batch_vars, metrics_vars, loader_vars>>

Next == GenerateSignals \/ FromSignals \/ GetMetrics

Spec == Init /\ [][Next]_vars

(* ------------------------------------------------- execution transitions *)
\* generate_signals has returned the signal panel
Generated == pc # "start" /\ \E pair \in Assets : signals[pair] # <<>>

\* from_signals has processed row i of the pair's column
Processed(pair, i) == i \in 1..Len(log[pair])

\* the pair's column before and after row i
Before(pair, i) == IF i = 1 THEN NoPortfolio ELSE log[pair][i - 1]

After(pair, i) == log[pair][i]

\* every close of the pair is present and positive
ValidPrices(pair) ==
  \A i \in Index : price_data[pair][i].close > 0

\* the signal value that asks for a position
Direction(position) ==
  CASE position = "LONG" -> 1
    [] position = "SHORT" -> 0 - 1
    [] position = "FLAT" -> 0

\* C1: on valid prices, whenever the signal of a processed row is -1 and the
\* asset was FLAT or LONG before the row, the asset is SHORT after the row.
ShortSideRule ==
  \A pair \in Assets : \A i \in Index :
    (Processed(pair, i) /\ ValidPrices(pair) /\ signals[pair][i] = 0 - 1
       /\ Before(pair, i).position \in {"FLAT", "LONG"})
      => After(pair, i).position = "SHORT"

\* C2 as stated: on valid prices, whenever the signal of a processed row is
\* 0 and the asset held a position before the row, the asset is FLAT after
\* the row.
FlatSideRule ==
  \A pair \in Assets : \A i \in Index :
    (Processed(pair, i) /\ ValidPrices(pair) /\ signals[pair][i] = 0
       /\ Before(pair, i).position \in {"LONG", "SHORT"})
      => After(pair, i).position = "FLAT"

\* C2 as amended: a row whose signal is 0 places no order and leaves the
\* asset's position and trade records as they were before the row; an open
\* position is held across it.
ZeroSignalHolds ==
  \A pair \in Assets : \A i \in Index :
    (Processed(pair, i) /\ signals[pair][i] = 0)
      => After(pair, i) = Before(pair, i)

\* a long position held across a row whose signal is 0
ZeroSignalHolds_witness ==
  \E pair \in Assets : \E i \in Index :
    /\ Processed(pair, i) /\ signals[pair][i] = 0
    /\ Before(pair, i).position = "LONG"
    /\ After(pair, i).position = "LONG"

\* C3: a row whose signal equals the direction of the position held before
\* it places no order, opens and closes no trade record and leaves the
\* position unchanged.
SameDirectionNoAction ==
  \A pair \in Assets : \A i \in Index :
    (Processed(pair, i) /\ signals[pair][i] = Direction(Before(pair, i).position))
      => /\ After(pair, i).orders = Before(pair, i).orders
         /\ After(pair, i).trades = Before(pair, i).trades
         /\ After(pair, i).position = Before(pair, i).position

\* a long position that meets a further signal +1 at a valid price
SameDirectionNoAction_witness ==
  \E pair \in Assets : \E i \in Index :
    /\ Processed(pair, i) /\ signals[pair][i] = 1
    /\ Before(pair, i).position = "LONG"
    /\ price_data[pair][i].close > 0

(* ------------------------------------------------------- signal contracts *)
\* the sum of f over the w positions that end at i
WindowTotal(f, w, i) ==
  LET acc[k \in 0..w] == IF k = 0 THEN 0 ELSE acc[k - 1] + f[i - k + 1]
  IN acc[w]

\* the raw close column of a pair
Close(pair) == Column(price_data, pair, "close")

\* C4: the signal panel returned by generate_signals has one signal column
\* per asset of the price panel, one value per timestamp of its index, and
\* every value is -1, 0 or 1.
SignalsClosedWorld ==
  Generated =>
    /\ DOMAIN signals = Assets
    /\ \A pair \in Assets :
         /\ DOMAIN signals[pair] = Index
         /\ \A i \in Index : signals[pair][i] \in {0 - 1, 0, 1}

\* a run of the VWAP strategy that returned, with all three values in a column
SignalsClosedWorld_witness ==
  /\ strategy = "VWAP" /\ Generated /\ pc = "returned"
  /\ \E pair \in Assets : \E i, j, k \in Index :
       signals[pair][i] = 1 /\ signals[pair][j] = 0 - 1 /\ signals[pair][k] = 0

\* C5: crossover signal = +1 iff fast average > slow average, -1 iff fast <
\* slow, 0 on equality and while either average is in its warm-up; a constant
\* price series has signal 0 at every timestamp.
CrossoverRule ==
  (strategy = "SMA" /\ Generated) =>
    \A pair \in Assets :
      /\ \A i \in Index :
           LET warm == i < fast_window \/ i < slow_window
               fast == IF warm THEN 0 ELSE WindowTotal(Close(pair), fast_window, i)
               slow == IF warm THEN 0 ELSE WindowTotal(Close(pair), slow_window, i)
           IN /\ signals[pair][i] = 1
                   <=> (~warm /\ fast * slow_window > slow * fast_window)
              /\ signals[pair][i] = 0 - 1
                   <=> (~warm /\ fast * slow_window < slow * fast_window)
              /\ signals[pair][i] = 0
                   <=> (warm \/ fast * slow_window = slow * fast_window)
      /\ (\A i \in Index : Close(pair)[i] = Close(pair)[1])
           => \A i \in Index : signals[pair][i] = 0

\* a crossover column with a +1, a -1 and a warm-up 0
CrossoverRule_witness ==
  /\ strategy = "SMA" /\ Generated
  /\ \E pair \in Assets : \E i, j \in Index :
       signals[pair][i] = 1 /\ signals[pair][j] = 0 - 1 /\ signals[pair][1] = 0

\* C6: oscillator+band signal = +1 iff RSI < oversold and close <= lower
\* band at that timestamp, -1 iff RSI > overbought and close >= upper band at
\* that timestamp, 0 otherwise.
OscillatorBandRule ==
  (strategy = "RSI" /\ Generated) =>
    \A pair \in Assets : \A i \in Index :
      LET value == rsi(Close(pair), rsi_window, i)
          oversold == value.def /\ value.num < rsi_oversold * value.den
          overbought == value.def /\ value.num > rsi_overbought * value.den
          low == close_le_lband(Close(pair), bb_window, bb_std, i)
          high == close_ge_hband(Close(pair), bb_window, bb_std, i)
      IN /\ signals[pair][i] = 1 <=> (oversold /\ low)
         /\ signals[pair][i] = 0 - 1 <=> (overbought /\ high)
         /\ signals[pair][i] = 0 <=> ~(oversold /\ low) /\ ~(overbought /\ high)

\* an oscillator+band column with a -1 and with a later row whose close is at
\* or below the lower band while the oscillator is not oversold: signal 0
OscillatorBandRule_witness ==
  /\ strategy = "RSI" /\ Generated
  /\ \E pair \in Assets : \E i, j \in Index :
       /\ signals[pair][i] = 0 - 1
       /\ i < j /\ signals[pair][j] = 0
       /\ close_le_lband(Close(pair), bb_window, bb_std, j)

\* the VWAP of a pair at row i, recomputed from the raw columns: the sums of
\* (high + low + close) * volume and of volume over the window
RawMissing(pair, i) ==
  \/ i < lookback_window
  \/ \E j \in (i - lookback_window + 1)..i : price_data[pair][j] = NaNBar

RawTurnover3(pair, i) ==
  WindowTotal([j \in Index |->
                 LET b == price_data[pair][j]
                 IN (b.high + b.low + b.close) * b.volume],
              lookback_window, i)

RawVolume(pair, i) ==
  WindowTotal(Column(price_data, pair, "volume"), lookback_window, i)

\* C7: calculate_vwap is the rolling quotient sum(typical_price * volume) /
\* sum(volume), undefined during the first lookback_window - 1 timestamps;
\* the signal is +1 iff (close - vwap)/vwap < -threshold, -1 iff it is
\* > +threshold, 0 otherwise (the quotient taken as the float division).
VwapRule ==
  (strategy = "VWAP" /\ Generated) =>
    \A pair \in Assets : \A i \in Index :
      LET missing == RawMissing(pair, i)
          n3 == IF missing THEN 0 ELSE RawTurnover3(pair, i)
          vol == IF missing THEN 0 ELSE RawVolume(pair, i)
          c == Close(pair)[i]
          vwap == calculate_vwap(Column(price_data, pair, "high"),
                                 Column(price_data, pair, "low"),
                                 Close(pair),
                                 Column(price_data, pair, "volume"), i)
          below == /\ ~missing /\ vol # 0 /\ n3 > 0
                   /\ (3 * vol * c - n3) * deviation_threshold_den
                        < (0 - deviation_threshold_num) * n3
          above == /\ ~missing /\ vol # 0
                   /\ \/ n3 = 0 /\ c > 0
                      \/ n3 > 0 /\ (3 * vol * c - n3) * deviation_threshold_den
                                     > deviation_threshold_num * n3
      IN /\ i < lookback_window => ~vwap.def
         /\ vwap.def <=> (~missing /\ vol # 0)
         /\ vwap.def => vwap.num * 3 * vol = n3 * vwap.den
         /\ signals[pair][i] = 1 <=> below
         /\ signals[pair][i] = 0 - 1 <=> above
         /\ signals[pair][i] = 0 <=> (~below /\ ~above)

\* a VWAP column with a +1 and a -1 on bars whose typical price differs from
\* the close
VwapRule_witness ==
  /\ strategy = "VWAP" /\ Generated
  /\ \E pair \in Assets : \E i, j \in Index :
       /\ signals[pair][i] = 1 /\ signals[pair][j] = 0 - 1
       /\ \E k \in Index : price_data[pair][k].high > price_data[pair][k].close

\* the indicator a strategy reads at row i of a pair is undefined: a moving
\* average, the oscillator or the band in warm-up, or a VWAP that is missing
\* or 0 (the deviation divides by it)
IndicatorUndefined(pair, i) ==
  CASE strategy = "SMA" -> i < fast_window \/ i < slow_window
    [] strategy = "RSI" -> i < rsi_window \/ i < bb_window
    [] strategy = "VWAP" ->
         RawMissing(pair, i) \/ RawVolume(pair, i) = 0 \/ RawTurnover3(pair, i) = 0

\* C8: whenever the indicator is undefined at a timestamp, the signal at that
\* timestamp is 0.
UndefinedIndicatorNeutral ==
  Generated =>
    \A pair \in Assets : \A i \in Index :
      IndicatorUndefined(pair, i) => signals[pair][i] = 0

(* --------------------------------------------------------- missing prices *)
\* the pair has a missing close at some but not all timestamps, and its other
\* closes are positive
PartlyMissing(pair) ==
  /\ \E i \in Index : isna(Close(pair)[i])
  /\ \E i \in Index : ~isna(Close(pair)[i])
  /\ \A i \in Index : isna(Close(pair)[i]) \/ Close(pair)[i] > 0

\* the pair has no data at any timestamp
AllMissing(pair) == \A i \in Index : price_data[pair][i] = NaNBar

\* C9: when an asset's close is missing at some but not all timestamps (the
\* other asset being complete), the run returns without an exception and the
\* position is unchanged across every timestamp without a price.
MissingPricesTolerated ==
  (pc = "returned" /\ PartlyMissing(pairs[1]) /\ ValidPrices(pairs[2])) =>
    /\ result.returned = "dict"
    /\ \A i \in Index :
         isna(Close(pairs[1])[i]) =>
           /\ Processed(pairs[1], i)
           /\ After(pairs[1], i).position = Before(pairs[1], i).position

\* C10: with asset A complete and asset B without data at any timestamp,
\* Backtester.run_backtest returns a metrics record, not None.
MissingAssetTolerated ==
  (pc = "returned" /\ ValidPrices(pairs[1]) /\ AllMissing(pairs[2])) =>
    result.returned = "dict"

(* ------------------------------------------------------ the batch of main *)
\* the pipeline of a single run is not part of the batch
PipelineIdle ==
  /\ strategy = "SMA"
  /\ params = CHOOSE c \in Configurations : c.fast_window = 1
  /\ price_data = [pair \in Assets |-> [i \in Index |-> NaNBar]]
  /\ pc = "idle"
  /\ signals = [pair \in Assets |-> <<>>]
  /\ cursor = [col |-> 1, row |-> 1]
  /\ portfolio = [pair \in Assets |-> NoPortfolio]
  /\ log = [pair \in Assets |-> <<>>]
  /\ runs = 0
  /\ result = Pending

\* the list of main: one strategy of each class, in this order
Classes == <<"SMACrossoverStrategy", "RSIBollingerStrategy", "VWAPReversionStrategy">>

\* arguments a constructor is called with: those of main (the defaults for
\* the last two classes) and arguments that no run can use
Arguments(class) ==
  CASE class = "SMACrossoverStrategy" ->
         {[class |-> class, fast_window |-> 10, slow_window |-> 50],
          [class |-> class, fast_window |-> 0, slow_window |-> 50]}
    [] class = "RSIBollingerStrategy" ->
         {[class |-> class, rsi_window |-> 14, bb_window |-> 20,
           rsi_oversold |-> 30, rsi_overbought |-> 70],
          [class |-> class, rsi_window |-> 14, bb_window |-> 20,
           rsi_oversold |-> 30, rsi_overbought |-> 101],
          [class |-> class, rsi_window |-> 0 - 1, bb_window |-> 20,
           rsi_oversold |-> 30, rsi_overbought |-> 70]}
    [] class = "VWAPReversionStrategy" ->
         {[class |-> class, lookback_window |-> 50],
          [class |-> class, lookback_window |-> 0]}

\* __init__ of the three classes and of BaseStrategy: the arguments are
\* stored as given, nothing is raised
strategy_init(arguments) == [raised |-> FALSE, object |-> arguments]

\* the step of a strategy's run that raises an exception: none, the
\* simulation (strategy.run_backtest()), strategy.get_metrics() outside
\* calculate_metrics, or a portfolio accessor inside calculate_metrics
Faults == {"none", "run_backtest", "get_metrics", "calculate_metrics"}

\* str(e) of the exception a step of a strategy's run raises
message(s, fault) == [step |-> fault, strategy |-> s.class]

\* logger.error(f"<prefix>: {str(e)}")
Error(prefix, text) == [prefix |-> prefix, message |-> text]

\* strategy.run_backtest(), n-th call: a new portfolio object, or an exception
strategy_run_backtest(s, fault, n) ==
  [raised |-> fault = "run_backtest",
   portfolio |-> [strategy |-> s.class, call |-> n]]

\* BaseStrategy.calculate_metrics: an exception of the computation is caught,
\* logged, and the record of zeros is returned in place of the metrics
calculate_metrics(s, p, fault) ==
  IF fault = "calculate_metrics"
  THEN [values |-> "zeros", of_call |-> p.call,
        logged |-> <<Error("Metrics calculation error", message(s, fault))>>]
  ELSE [values |-> "computed", of_call |-> p.call, logged |-> <<>>]

\* strategy.get_metrics(): run_backtest() a second time, calculate_metrics on
\* that portfolio, then the strategy's identity is added to the record
strategy_get_metrics(s, fault) ==
  LET p == strategy_run_backtest(s, fault, 2)
      m == calculate_metrics(s, p.portfolio, fault)
  IN IF p.raised \/ fault = "get_metrics"
     THEN [raised |-> TRUE, logged |-> <<>>,
           metrics |-> [strategy |-> s.class, values |-> "", of_call |-> 0]]
     ELSE [raised |-> FALSE, logged |-> m.logged,
           metrics |-> [strategy |-> s.class, values |-> m.values,
                        of_call |-> m.of_call]]

ReturnedNone == [returned |-> "None"]

Returned(mapping) == [returned |-> "dict", dict |-> mapping]

\* an except branch that returns a mapping of what it has
backtest_failed_partial(s, fault, already) ==
  [returned |-> Returned([metrics |-> [strategy |-> s.class, values |-> "zeros",
                                       of_call |-> 0]]),
   logged |-> already \o <<Error("Backtest failed", message(s, fault))>>]

\* the except branch of Backtester.run_backtest: log and return None
backtest_failed(s, fault, already) ==
  [returned |-> ReturnedNone,
   logged |-> already \o <<Error("Backtest failed", message(s, fault))>>]

\* Backtester.run_backtest(strategy)
Backtester_run_backtest(s, fault) ==
  LET p == strategy_run_backtest(s, fault, 1)
      m == strategy_get_metrics(s, fault)
  IN IF p.raised THEN backtest_failed(s, fault, <<>>)
     ELSE IF m.raised THEN backtest_failed(s, fault, m.logged)
     ELSE [returned |-> Returned([metrics |-> m.metrics, portfolio |-> p.portfolio]),
           logged |-> m.logged]

\* the record put in front of the pool
append_metrics_front(pool, metrics) == <<metrics>> \o pool

\* all_metrics.append(result['metrics'])
append_metrics(pool, metrics) == Append(pool, metrics)

InitBatch ==
  /\ configs \in {<<a, b, c>> : a \in Arguments(Classes[1]),
                                b \in Arguments(Classes[2]),
                                c \in Arguments(Classes[3])}
  /\ faults \in [1..Len(Classes) -> Faults]
  /\ strategies = <<>>
  /\ results = <<>>
  /\ all_metrics = <<>>
  /\ logged = <<>>
  /\ compared = FALSE
  /\ bpc = "construct"
  /\ PipelineIdle
  /\ MetricsIdle
  /\ LoaderIdle

\* main, the list of strategies: the next constructor call; an exception of
\* a constructor reaches main's own except branch
Construct ==
  /\ bpc = "construct"
  /\ LET k == Len(strategies) + 1
         made == strategy_init(configs[k])
     IN IF made.raised
        THEN /\ bpc' = "fatal"
             /\ logged' = Append(logged, Error("Fatal error", message(configs[k], "init")))
             /\ UNCHANGED strategies
        ELSE /\ strategies' = Append(strategies, made.object)
             /\ bpc' = IF k = Len(Classes) THEN "loop" ELSE "construct"
             /\ UNCHANGED logged
  /\ UNCHANGED <<configs, faults, results, all_metrics, compared>>
  /\ UNCHANGED <<pipeline_vars, metrics_vars, loader_vars>>

\* main, one turn of the loop: run_backtest, and for a result that is not
\* None save_results (which catches its own exceptions) and the append
RunStrategy ==
  /\ bpc = "loop"
  /\ LET k == Len(results) + 1
         r == Backtester_run_backtest(strategies[k], faults[k])
     IN /\ results' = Append(results, r.returned)
        /\ IF r.returned.returned = "dict"
           THEN /\ \E saved \in BOOLEAN :
                     logged' = logged \o r.logged \o
                               (IF saved THEN <<>>
                                ELSE <<Error("Error saving results",
                                             message(strategies[k], "save_results"))>>)
                /\ all_metrics' = append_metrics(all_metrics, r.returned.dict.metrics)
           ELSE /\ logged' = logged \o r.logged
                /\ UNCHANGED all_metrics
        /\ bpc' = IF k = Len(strategies) THEN "compare" ELSE "loop"
  /\ UNCHANGED <<configs, faults, strategies, compared>>
  /\ UNCHANGED <<pipeline_vars, metrics_vars, loader_vars>>

\* main, after the loop: compare_strategies if all_metrics is not empty
Compare ==
  /\ bpc = "compare"
  /\ compared' = (all_metrics # <<>>)
  /\ bpc' = "done"
  /\ UNCHANGED <<configs, faults, strategies, results, all_metrics, logged>>
  /\ UNCHANGED <<pipeline_vars, metrics_vars, loader_vars>>

NextBatch == Construct \/ RunStrategy \/ Compare

SpecBatch == InitBatch /\ [][NextBatch]_vars

\* the strategies Backtester.run_backtest has been called with so far
Ran == 1..Len(results)

(* C11: a strategy run of which any step raised, in the simulation or in    *)
(* the computation of the metrics, returned None and has no record in the   *)
(* pooled metrics.                                                          *)
FailedRunYieldsNoRecord ==
  \A k \in Ran :
    faults[k] # "none" =>
      /\ results[k] = ReturnedNone
      /\ \A j \in 1..Len(all_metrics) :
           all_metrics[j].strategy # strategies[k].class

\* strategy.run_backtest() or strategy.get_metrics() raises
Raises(k) == faults[k] \in {"run_backtest", "get_metrics"}

(* C12: Backtester.run_backtest propagates no exception.  When the          *)
(* strategy's run_backtest() or get_metrics() raises, it logs "Backtest     *)
(* failed: <message>" and returns None; otherwise it returns a mapping with *)
(* exactly the keys metrics and portfolio, the values of get_metrics() and  *)
(* of run_backtest().                                                       *)
RunBacktestNeverPropagates ==
  /\ bpc # "fatal"
  /\ \A k \in Ran :
       IF Raises(k)
       THEN /\ results[k] = ReturnedNone
            /\ \E i \in 1..Len(logged) :
                 logged[i] = Error("Backtest failed", message(strategies[k], faults[k]))
       ELSE /\ results[k].returned = "dict"
            /\ DOMAIN results[k].dict = {"metrics", "portfolio"}
            /\ results[k].dict.metrics =
                 strategy_get_metrics(strategies[k], faults[k]).metrics
            /\ results[k].dict.portfolio =
                 strategy_run_backtest(strategies[k], faults[k], 1).portfolio

RunBacktestNeverPropagates_witness ==
  /\ bpc = "done"
  /\ faults[1] = "run_backtest" /\ results[1] = ReturnedNone
  /\ faults[2] = "get_metrics" /\ results[2] = ReturnedNone
  /\ faults[3] = "none" /\ results[3].returned = "dict"

\* the records of the runs that returned a mapping, in the order of the list
RECURSIVE Succeeded(_)
Succeeded(k) ==
  IF k = 0 THEN <<>>
  ELSE IF results[k].returned = "dict"
       THEN Append(Succeeded(k - 1), results[k].dict.metrics)
       ELSE Succeeded(k - 1)

(* C14: a failed run does not end the loop of main.  The loop is left only  *)
(* when every strategy of the list has been run; the pooled metrics are     *)
(* then the records of the runs that succeeded, in list order, and          *)
(* compare_strategies is called exactly when there is such a record.        *)
BatchContinues ==
  /\ bpc # "fatal"
  /\ all_metrics = Succeeded(Len(results))
  /\ bpc \in {"compare", "done"} => Len(results) = Len(configs)
  /\ bpc = "done" => (compared <=> all_metrics # <<>>)
  /\ bpc # "done" => ~compared

BatchContinues_witness ==
  /\ bpc = "done"
  /\ results[1] = ReturnedNone
  /\ results[2].returned = "dict"
  /\ results[3].returned = "dict"
  /\ Len(all_metrics) = 2
  /\ compared

\* the configuration errors: a window that is not positive, a threshold of
\* the oscillator outside [0, 100]
ValidConfiguration(c) ==
  CASE c.class = "SMACrossoverStrategy" -> c.fast_window > 0 /\ c.slow_window > 0
    [] c.class = "RSIBollingerStrategy" ->
         /\ c.rsi_window > 0 /\ c.bb_window > 0
         /\ c.rsi_oversold \in 0..100 /\ c.rsi_overbought \in 0..100
    [] c.class = "VWAPReversionStrategy" -> c.lookback_window > 0

(* C15: a strategy with an invalid configuration is not constructed: its    *)
(* constructor raises, so every strategy object of the list has a valid     *)
(* configuration (and the strategies of a valid configuration are in the    *)
(* list all the same).                                                      *)
InvalidConfigurationRejected ==
  \A k \in 1..Len(strategies) : ValidConfiguration(strategies[k])

(* -------------------------------------------------- one run, its metrics *)
(* C13: when Backtester.run_backtest(strategy) has returned, the strategy's *)
(* simulation (strategy.run_backtest) has been invoked exactly once.        *)
SimulationRunsOnce == pc = "returned" => runs = 1

(* -------------------------------------------------------- metrics engine *)
\* number of trade records of the completed portfolio
MaxTrades == 2

RECURSIVE gcd(_, _)
gcd(a, b) == IF b = 0 THEN a ELSE gcd(b, a % b)

\* the float n/d as an exact quotient in lowest terms, for d >= 0; a zero
\* denominator gives the IEEE results +inf, -inf and NaN as 1/0, -1/0 and 0/0
Ratio(n, d) ==
  IF d = 0
  THEN [num |-> IF n > 0 THEN 1 ELSE IF n < 0 THEN 0 - 1 ELSE 0, den |-> 0]
  ELSE LET g == gcd(IF n < 0 THEN 0 - n ELSE n, d)
       IN [num |-> n \div g, den |-> d \div g]

Zero == Ratio(0, 1)

PositiveInfinity == Ratio(1, 0)

NotANumber == Ratio(0, 0)

\* portfolio.wrapper.index: n timestamps (in seconds), or n positions
TimeIndex(step, n) == [time_based |-> TRUE, at |-> [i \in 1..n |-> (i - 1) * step]]

RangeIndex(n) == [time_based |-> FALSE, at |-> [i \in 1..n |-> i - 1]]

\* bars of a minute, bars of a minute and a half, a single bar, no timestamps
Indexes ==
  {TimeIndex(60, MaxLen), TimeIndex(90, MaxLen), TimeIndex(60, 1), RangeIndex(MaxLen)}

\* P&L of a trade record
PnLs == {0 - 1, 0, 2}

\* portfolio.trades.records over an index of n bars: a closed trade exits
\* after its entry; a position still open at the end has a record of status
\* Open whose exit is the last bar, valued at that bar's close (no gain for
\* a position entered at the last bar)
TradeRecords(n) ==
  {t \in [entry_idx : 0..(n - 1), exit_idx : 0..(n - 1), pnl : PnLs,
          status : {"Closed", "Open"}] :
     IF t.status = "Closed" THEN t.entry_idx < t.exit_idx
     ELSE /\ t.entry_idx <= t.exit_idx /\ t.exit_idx = n - 1
          /\ t.entry_idx = t.exit_idx => t.pnl <= 0}

\* the ledgers of m trade records over an index
Ledgers(index, m) == [1..m -> TradeRecords(Len(index.at))]

RECURSIVE Sum(_)
Sum(values) ==
  IF Len(values) = 0 THEN 0
  ELSE values[Len(values)] + Sum(SubSeq(values, 1, Len(values) - 1))

\* ascending order, as Series.median, max and min see the values
RECURSIVE Sorted(_)
Sorted(values) ==
  IF Len(values) = 0 THEN <<>>
  ELSE LET x == values[Len(values)]
           rest == Sorted(SubSeq(values, 1, Len(values) - 1))
           k == Cardinality({i \in 1..Len(rest) : rest[i] <= x})
       IN SubSeq(rest, 1, k) \o <<x>> \o SubSeq(rest, k + 1, Len(rest))

\* len(trades[trades['pnl'] > 0]) / len(trades) if len(trades) > 0 else 0.0
win_rate(trades) ==
  IF Len(trades) > 0
  THEN Ratio(Cardinality({k \in 1..Len(trades) : trades[k].pnl > 0}), Len(trades))
  ELSE Zero

\* a bar of one minute whatever the index
bar_duration_one(index) == [num |-> 1, den |-> 1]

\* minutes per bar: (index[1] - index[0]).total_seconds() / 60 for an index
\* of more than one timestamp, else 1
bar_duration(index) ==
  IF Len(index.at) > 1 /\ index.time_based
  THEN [num |-> index.at[2] - index.at[1], den |-> 60]
  ELSE [num |-> 1, den |-> 1]

EmptyMapping == [key \in {} |-> Zero]

\* MetricsCalculator.calculate_trade_duration_stats
calculate_trade_duration_stats(p) ==
  IF Len(p.trades) = 0 THEN EmptyMapping
  ELSE LET bar == bar_duration(p.index)
           n == Len(p.trades)
           bars == [k \in 1..n |-> p.trades[k].exit_idx - p.trades[k].entry_idx]
           sorted == Sorted(bars)
           middles == sorted[(n + 1) \div 2] + sorted[n \div 2 + 1]
       IN [avg_trade_duration |-> Ratio(Sum(bars) * bar.num, n * bar.den),
           median_trade_duration |-> Ratio(middles * bar.num, 2 * bar.den),
           max_trade_duration |-> Ratio(sorted[n] * bar.num, bar.den),
           min_trade_duration |-> Ratio(sorted[1] * bar.num, bar.den)]

gross_profits(trades) ==
  Sum([k \in 1..Len(trades) |-> IF trades[k].pnl > 0 THEN trades[k].pnl ELSE 0])

gross_losses(trades) ==
  Sum([k \in 1..Len(trades) |-> IF trades[k].pnl < 0 THEN trades[k].pnl ELSE 0])

\* the quotient without the two early returns
calculate_profit_factor_unguarded(p) ==
  Ratio(gross_profits(p.trades), 0 - gross_losses(p.trades))

\* MetricsCalculator.calculate_profit_factor
calculate_profit_factor(p) ==
  IF Len(p.trades) = 0 THEN Zero
  ELSE IF gross_losses(p.trades) = 0 THEN PositiveInfinity
  ELSE Ratio(gross_profits(p.trades), 0 - gross_losses(p.trades))

\* BaseStrategy.calculate_metrics, the try block: the entries of the record
\* that are computed from the trade records (total_return, sharpe_ratio and
\* max_drawdown are the simulator's own values)
calculate_metrics_try(p) ==
  [win_rate |-> win_rate(p.trades), total_trades |-> Len(p.trades)]
    @@ calculate_trade_duration_stats(p)
    @@ [profit_factor |-> calculate_profit_factor(p)]

InitMetrics ==
  /\ \E idx \in Indexes, m \in 0..MaxTrades :
       \E trades \in Ledgers(idx, m) : completed = [index |-> idx, trades |-> trades]
  /\ record = <<>>
  /\ mpc = "portfolio"
  /\ calls = <<>>
  /\ PipelineIdle
  /\ BatchIdle
  /\ LoaderIdle

\* a computation that takes the trade records out of the portfolio
calculate_metrics_call_consuming(p) ==
  [record |-> calculate_metrics_try(p), portfolio |-> [p EXCEPT !.trades = <<>>]]

\* one call of calculate_metrics(portfolio): the record it returns and the
\* portfolio it leaves; the portfolio's records are only read (a filtered
\* copy for win_rate, new arrays for the durations and the P&L sums)
calculate_metrics_call(p) ==
  [record |-> calculate_metrics_try(p), portfolio |-> p]

\* calculate_metrics(portfolio) returns the record; it can be called again
\* on the same portfolio
CalculateMetrics ==
  /\ mpc \in {"portfolio", "metrics"}
  /\ LET call == calculate_metrics_call(completed)
     IN /\ record' = call.record
        /\ completed' = call.portfolio
        /\ calls' = Append(calls, [given |-> completed, record |-> call.record,
                                   left |-> call.portfolio])
  /\ mpc' = IF mpc = "portfolio" THEN "metrics" ELSE "again"
  /\ UNCHANGED <<pipeline_vars, batch_vars, loader_vars>>

NextMetrics == CalculateMetrics

SpecMetrics == InitMetrics /\ [][NextMetrics]_vars

\* the trade records of the portfolio the record was computed from
Ledger == completed.trades

Winners == {k \in 1..Len(Ledger) : Ledger[k].pnl > 0}

Losers == {k \in 1..Len(Ledger) : Ledger[k].pnl < 0}

(* C16, as stated: every ledger falls in one of three cases: a trade loses  *)
(* and profit_factor is gross profit over the magnitude of gross loss; no   *)
(* trade loses, one wins and it is +infinity; the ledger is empty and it    *)
(* is 0.0.  Stated for the ledgers that hold closed trades only.            *)
ProfitFactorThreeCases ==
  (mpc = "metrics" /\ \A k \in 1..Len(Ledger) : Ledger[k].status = "Closed") =>
    \/ Losers # {} /\ record.profit_factor =
                        Ratio(gross_profits(Ledger), 0 - gross_losses(Ledger))
    \/ Losers = {} /\ Winners # {} /\ record.profit_factor = PositiveInfinity
    \/ Ledger = <<>> /\ record.profit_factor = Zero

(* C16, amended: profit_factor is gross profit over the magnitude of gross  *)
(* loss when a trade loses, +infinity when the ledger is not empty and no   *)
(* trade loses (whether or not a trade wins), and 0.0 when the ledger is    *)
(* empty.                                                                   *)
ProfitFactorRule ==
  mpc = "metrics" =>
    /\ Losers # {} => record.profit_factor =
                        Ratio(gross_profits(Ledger), 0 - gross_losses(Ledger))
    /\ (Losers = {} /\ Ledger # <<>>) => record.profit_factor = PositiveInfinity
    /\ Ledger = <<>> => record.profit_factor = Zero

ProfitFactorRule_witness ==
  /\ mpc = "metrics"
  /\ Len(Ledger) = 2
  /\ Ledger[1].pnl = 0 /\ Ledger[2].pnl = 0
  /\ record.profit_factor = PositiveInfinity

Closed == {k \in 1..Len(Ledger) : Ledger[k].status = "Closed"}

(* C17: win_rate is the number of closed trades with a P&L above zero       *)
(* divided by the number of closed trades, 0.0 when there is none, and so   *)
(* a finite value between 0 and 1.                                          *)
WinRateOverClosedTrades ==
  mpc = "metrics" =>
    /\ record.win_rate =
         IF Closed = {} THEN Zero
         ELSE Ratio(Cardinality(Closed \cap Winners), Cardinality(Closed))
    /\ record.win_rate.den > 0
    /\ 0 <= record.win_rate.num /\ record.win_rate.num <= record.win_rate.den

\* minutes per bar, from the first two timestamps of the index
BarIntervalMinutes ==
  IF Len(completed.index.at) < 2 \/ ~completed.index.time_based
  THEN [num |-> 1, den |-> 1]
  ELSE [num |-> completed.index.at[2] - completed.index.at[1], den |-> 60]

\* (exit_index - entry_index) of the k-th trade, in bars
BarsHeld(k) == Ledger[k].exit_idx - Ledger[k].entry_idx

\* the r-th smallest of the trades' durations in bars
Ranked(r) ==
  CHOOSE v \in {BarsHeld(k) : k \in 1..Len(Ledger)} :
    /\ Cardinality({k \in 1..Len(Ledger) : BarsHeld(k) < v}) < r
    /\ Cardinality({k \in 1..Len(Ledger) : BarsHeld(k) <= v}) >= r

DurationKeys ==
  {"avg_trade_duration", "median_trade_duration", "max_trade_duration",
   "min_trade_duration"}

(* C19: the record's duration entries are the mean, median, max and min     *)
(* over the trades of (exit_index - entry_index) times the bar interval in  *)
(* minutes (difference of the first two index timestamps, or 1 for an index *)
(* of fewer than two entries or without timestamps); for an empty ledger    *)
(* the record has none of the four entries.                                 *)
DurationStatsRule ==
  mpc = "metrics" =>
    IF Ledger = <<>> THEN DOMAIN record \cap DurationKeys = {}
    ELSE LET n == Len(Ledger)
             m == BarIntervalMinutes
         IN /\ DurationKeys \subseteq DOMAIN record
            /\ record.avg_trade_duration =
                 Ratio(Sum([k \in 1..n |-> BarsHeld(k)]) * m.num, n * m.den)
            /\ record.median_trade_duration =
                 Ratio((Ranked((n + 1) \div 2) + Ranked(n \div 2 + 1)) * m.num, 2 * m.den)
            /\ record.max_trade_duration = Ratio(Ranked(n) * m.num, m.den)
            /\ record.min_trade_duration = Ratio(Ranked(1) * m.num, m.den)

DurationStatsRule_witness ==
  /\ mpc = "metrics"
  /\ Len(Ledger) = 2
  /\ BarsHeld(1) = 2 /\ BarsHeld(2) = 1
  /\ completed.index = TimeIndex(90, MaxLen)
  /\ record.avg_trade_duration = Ratio(9, 4)
  /\ record.max_trade_duration = Ratio(3, 1)
  /\ record.min_trade_duration = Ratio(3, 2)

(* ------------------------------------------- the record of a single run *)
\* Backtester.run_backtest has returned a mapping, for a panel of valid prices
Completed ==
  /\ pc = "returned" /\ result.returned = "dict"
  /\ \A pair \in Assets : ValidPrices(pair)

\* the closed trade records of the run's portfolio, all columns together
RECURSIVE ClosedRecords(_)
ClosedRecords(k) ==
  IF k = 0 THEN 0
  ELSE Cardinality({j \in 1..Len(portfolio[pairs[k]].trades) :
                      portfolio[pairs[k]].trades[j].status = "Closed"})
       + ClosedRecords(k - 1)

(* C18: total_trades of the record is the number of closed trades of the    *)
(* run: a position still open at the last timestamp is not counted.         *)
TotalTradesCountsClosed ==
  Completed => result.metrics.total_trades = ClosedRecords(Len(pairs))

(* C20: no value of the record is NaN or an undocumented infinity; the      *)
(* sharpe_ratio of a column whose returns have standard deviation 0, as the *)
(* column of an asset that was never traded, is 0.                          *)
SharpeZeroWhenFlat ==
  Completed =>
    \A pair \in Assets :
      /\ result.metrics.sharpe_ratio[pair] \notin {"nan", "inf"}
      /\ portfolio[pair].orders = 0 => result.metrics.sharpe_ratio[pair] = "zero"

PanelsOf(strat) == Panels(IF strat = "VWAP" THEN Rows ELSE CloseRows)

\* panel agrees with the run's panel on every timestamp up to and including t
AgreesUpTo(panel, t) ==
  \A pair \in Assets : \A i \in 1..t : panel[pair][i] = price_data[pair][i]

(* C22: the signal at a timestamp t depends on the prices up to t only:     *)
(* every panel that agrees with the run's panel up to and including t gets  *)
(* the same signal at t for every asset, whatever it holds after t.         *)
NoLookAhead ==
  (pc = "simulate" /\ \A pair \in Assets : ValidPrices(pair)) =>
    \A t \in Index : \A other \in PanelsOf(strategy) :
      AgreesUpTo(other, t) =>
        LET g == generate_signals(strategy, other)
        IN /\ ~g.raised
           /\ \A pair \in Assets : g.signals[pair][t] = signals[pair][t]

(* ------------------------------------------------- download of the panel *)
\* number of pairs get_top_btc_pairs can return (top_n)
MaxPairs == 3

\* get_top_btc_pairs(top_n): at most top_n distinct market symbols, or the
\* empty list when load_markets fails
PairLists ==
  UNION {{l \in [1..m -> 1..MaxPairs] : \A i, j \in 1..m : l[i] = l[j] => i = j} :
         m \in 0..MaxPairs}

\* what fetch_historical_data does for a pair: a frame with rows, an empty
\* frame, or an exception
FetchOutcomes == {"rows", "empty", "raises"}

\* a loop body that stores every frame that was returned, empty or not
store_fetched_any(pair, outcome, stored, fails) ==
  IF outcome = "raises" THEN [all_data |-> stored, failed |-> Append(fails, pair)]
  ELSE [all_data |-> Append(stored, pair), failed |-> fails]

\* load_or_download_data, the body of the loop over pairs: the try around
\* fetch_historical_data, all_data[pair] = df for a frame that is not empty,
\* failed.append(pair) in the except branch
store_fetched(pair, outcome, stored, fails) ==
  IF outcome = "raises" THEN [all_data |-> stored, failed |-> Append(fails, pair)]
  ELSE IF outcome = "rows" THEN [all_data |-> Append(stored, pair), failed |-> fails]
  ELSE [all_data |-> stored, failed |-> fails]

\* the download begins: the list of pairs, and what the fetch of each does
InitDownload ==
  /\ top_pairs \in PairLists
  /\ fetches \in [1..MaxPairs -> FetchOutcomes]
  /\ downloaded = <<>>
  /\ failed = <<>>
  /\ visited = <<>>
  /\ loaded = [returned |-> "pending"]
  /\ dpc = IF Len(top_pairs) = 0 THEN "combine" ELSE "loop"
  /\ FetchIdle
  /\ PipelineIdle
  /\ BatchIdle
  /\ MetricsIdle

\* one turn of the loop: for pair in pairs
DownloadPair ==
  /\ dpc = "loop"
  /\ LET pair == top_pairs[Len(visited) + 1]
         after == store_fetched(pair, fetches[pair], downloaded, failed)
     IN /\ downloaded' = after.all_data
        /\ failed' = after.failed
        /\ visited' = Append(visited, pair)
        /\ dpc' = IF Len(visited) + 1 = Len(top_pairs) THEN "combine" ELSE "loop"
  /\ UNCHANGED <<top_pairs, fetches, loaded>>
  /\ UNCHANGED <<fetch_vars, pipeline_vars, batch_vars, metrics_vars>>

\* after the loop: ValueError when all_data is empty, else the frames joined
\* column-wise, columns sorted; a failure of the cache write is only logged
Combine ==
  /\ dpc = "combine"
  /\ loaded' = IF downloaded = <<>> THEN [returned |-> "ValueError"]
               ELSE [returned |-> "frame",
                     pairs |-> {downloaded[k] : k \in 1..Len(downloaded)}]
  /\ dpc' = "done"
  /\ UNCHANGED <<top_pairs, fetches, downloaded, failed, visited>>
  /\ UNCHANGED <<fetch_vars, pipeline_vars, batch_vars, metrics_vars>>

NextDownload == DownloadPair \/ Combine

SpecDownload == InitDownload /\ [][NextDownload]_vars

\* the pairs of the list whose fetch yielded at least one row
Yielded == {top_pairs[k] : k \in {i \in 1..Len(top_pairs) : fetches[top_pairs[i]] = "rows"}}

(* C23: a pair whose fetch raises or returns no rows is skipped and the     *)
(* loop goes on: the loop ends only when every pair of the list has been    *)
(* through it; the returned panel holds exactly the pairs that yielded a    *)
(* row, and ValueError is raised exactly when no pair did.                  *)
DownloadTolerant ==
  /\ dpc \in {"combine", "done"} => visited = top_pairs
  /\ dpc # "done" => loaded.returned = "pending"
  /\ dpc = "done" =>
       /\ loaded.returned = "ValueError" <=> Yielded = {}
       /\ loaded.returned # "ValueError" =>
            loaded.returned = "frame" /\ loaded.pairs = Yielded

DownloadTolerant_witness ==
  /\ dpc = "done"
  /\ Len(top_pairs) = 3
  /\ fetches[top_pairs[1]] = "raises"
  /\ fetches[top_pairs[2]] = "empty"
  /\ fetches[top_pairs[3]] = "rows"
  /\ loaded = [returned |-> "frame", pairs |-> {top_pairs[3]}]
  /\ failed = <<top_pairs[1]>>

(* ------------------------------------------- pages of historical candles *)
\* instants are counted in minutes; the last instant the exchange has a
\* candle for
MaxTime == 4

\* fetch_ohlcv's limit, the most candles a page holds (1000 in the source,
\* counted here in the instants of the model)
limit == 2

\* timedelta(minutes=1)
Minute == 1

\* timedelta(days=1), in the minutes of the model
Day == 2

\* last_timestamp = None
NoTimestamp == 0 - 1

Times == 0..MaxTime

\* what self.fetch_ohlcv(pair, timeframe, since) can return: the timestamps
\* of any candles, in any order; the empty page also stands for a request
\* that failed, which fetch_ohlcv turns into an empty frame
Pages == UNION {[1..n -> Times] : n \in 0..limit}

\* df[df.index >= last_timestamp]
new_rows_inclusive(page, last) ==
  IF last = NoTimestamp THEN page
  ELSE SelectSeq(page, LAMBDA t : t >= last)

\* if last_timestamp is not None: df = df[df.index > last_timestamp]
new_rows(page, last) ==
  IF last = NoTimestamp THEN page
  ELSE SelectSeq(page, LAMBDA t : t > last)

RECURSIVE Flatten(_)
Flatten(frames) ==
  IF Len(frames) = 0 THEN <<>>
  ELSE Flatten(SubSeq(frames, 1, Len(frames) - 1)) \o frames[Len(frames)]

\* pd.concat(all_data).sort_index(), or the empty frame
concat_sorted(frames) == Sorted(Flatten(frames))

InitFetch ==
  /\ start_dt \in Times
  /\ end_dt \in Times
  /\ current_dt = start_dt
  /\ last_timestamp = NoTimestamp
  /\ all_data = <<>>
  /\ fpc = "loop"
  /\ DownloadIdle
  /\ PipelineIdle
  /\ BatchIdle
  /\ MetricsIdle

\* where a turn of the loop raises: nowhere, before the rows are stored
\* (lines 106-119), or after (lines 124-128)
RaisePoints == {"none", "early", "late"}

\* one turn of while current_dt < end_dt: the page is empty or the turn
\* raises (break, and the function returns), or the page has no row after
\* last_timestamp (a day further), or its new rows are stored
FetchPage ==
  /\ fpc = "loop"
  /\ current_dt < end_dt
  /\ \E page \in Pages, raises \in RaisePoints :
       LET df == new_rows(page, last_timestamp)
       IN IF raises = "early" \/ Len(page) = 0
          THEN /\ fpc' = "returned"
               /\ UNCHANGED <<current_dt, last_timestamp, all_data>>
          ELSE IF Len(df) = 0
          THEN /\ current_dt' = current_dt + Day
               /\ UNCHANGED <<last_timestamp, all_data, fpc>>
          ELSE /\ all_data' = Append(all_data, df)
               /\ last_timestamp' = df[Len(df)]
               /\ IF raises = "late"
                  THEN /\ current_dt' \in {current_dt, df[Len(df)] + Minute}
                       /\ fpc' = "returned"
                  ELSE /\ current_dt' = df[Len(df)] + Minute
                       /\ UNCHANGED fpc
  /\ UNCHANGED <<start_dt, end_dt>>
  /\ UNCHANGED <<download_vars, pipeline_vars, batch_vars, metrics_vars>>

\* the loop condition is false: the function returns
Return ==
  /\ fpc = "loop"
  /\ ~(current_dt < end_dt)
  /\ fpc' = "returned"
  /\ UNCHANGED <<start_dt, end_dt, current_dt, last_timestamp, all_data>>
  /\ UNCHANGED <<download_vars, pipeline_vars, batch_vars, metrics_vars>>

NextFetch == FetchPage \/ Return

SpecFetch == InitFetch /\ [][NextFetch]_vars

\* the loop is a sequential program: it takes its next step
SpecFetchFair == SpecFetch /\ WF_vars(NextFetch)

(* ------------------------------------------------------------------ C24 *)
\* the rows a turn appends are after last_timestamp, which moves to a
\* strictly greater value
StoresNewRows ==
  /\ last_timestamp' # NoTimestamp
  /\ last_timestamp = NoTimestamp \/ last_timestamp' > last_timestamp
  /\ Len(all_data') = Len(all_data) + 1
  /\ SubSeq(all_data', 1, Len(all_data)) = all_data
  /\ LET df == all_data'[Len(all_data')]
     IN /\ Len(df) > 0
        /\ last_timestamp # NoTimestamp =>
             \A i \in 1..Len(df) : df[i] > last_timestamp

\* the three ways a turn of the loop ends
TurnBreaks ==
  /\ fpc' = "returned"
  /\ UNCHANGED <<current_dt, last_timestamp, all_data>> \/ StoresNewRows

TurnSkipsDay ==
  /\ fpc' = "loop"
  /\ current_dt' = current_dt + Day
  /\ UNCHANGED <<last_timestamp, all_data>>

TurnStores ==
  /\ fpc' = "loop"
  /\ StoresNewRows
  /\ current_dt' = last_timestamp' + Minute

\* C24: every turn of the pagination loop of fetch_historical_data breaks,
\* or moves current_dt a day further, or stores rows and sets
\* last_timestamp to a strictly greater value and current_dt to
\* last_timestamp plus a minute; last_timestamp never decreases, no stored
\* row is at or before an earlier last_timestamp, and the loop terminates.
PaginationTerminates ==
  /\ [][fpc = "loop" /\ current_dt < end_dt =>
          TurnBreaks \/ TurnSkipsDay \/ TurnStores]_vars
  /\ [][last_timestamp # NoTimestamp =>
          /\ last_timestamp' # NoTimestamp
          /\ last_timestamp' >= last_timestamp]_vars
  /\ <>(fpc = "returned")

\* two pages were stored, a day was skipped in between or after, and the
\* function has returned
PaginationTerminates_witness ==
  /\ fpc = "returned"
  /\ Len(all_data) = 2
  /\ all_data[1][Len(all_data[1])] < all_data[2][1]
  /\ current_dt > last_timestamp + Minute

(* ------------------------------------------------------------------ C25 *)
\* C25: every row of the frame fetch_historical_data returns has a
\* timestamp t with start_date <= t <= end_date.
OnlyRequestedPeriod ==
  fpc = "returned" =>
    LET frame == concat_sorted(all_data)
    IN \A i \in 1..Len(frame) : start_dt <= frame[i] /\ frame[i] <= end_dt

====
